---------------------------- MODULE Spec2Model ----------------------------
(***************************************************************************)
(* Deep Zoom pyramid geometry and tile enumeration of gopenslide           *)
(* (deepzoom.go, helpers.go).                                              *)
(*                                                                         *)
(* image.Point is a record [X, Y].  A float64 value is a rational          *)
(* <<num, den>> with den > 0; math.Ceil and the int(...) conversion are    *)
(* computed on that rational (exact whenever the float64 computation is).  *)
(***************************************************************************)
EXTENDS Integers, Sequences, FiniteSets, TLC

VARIABLES
    slide,        \* the WSI handed to NewDeepZoomGenerator
    dz,           \* the DeepZoomGenerator after construction
    call,         \* the outstanding Tile(level, col, row) call and what it returned
    ctxDone,      \* ctx.Done() is closed
    pc,           \* position of the goroutine started by Iter
    level,        \* loop counter of Iter
    row,          \* loop counter of Iter
    col,          \* loop counter of Iter
    tile,         \* the tile the goroutine offers on ch
    received,     \* the tiles the consumer took from ch, in order
    cancelledAt,  \* Len(received) when ctx was cancelled
    cancelLevel   \* the goroutine's level when ctx was cancelled

vars == <<slide, dz, call, ctxDone, pc, level, row, col, tile, received,
          cancelledAt, cancelLevel>>

iterVars == <<ctxDone, pc, level, row, col, tile, received, cancelledAt, cancelLevel>>

-----------------------------------------------------------------------------
(* Bounds of the model *)

MaxDim == 4          \* native level-0 width and height range over 1..MaxDim
MaxIterDim == 3      \* the same for the generators Iter is run on
MaxTile == 2         \* tileSize ranges over 1..MaxTile
MaxOverlap == 1      \* overlap ranges over 0..MaxOverlap
MaxOffset == 1       \* openslide.bounds-x / -y range over 0..MaxOffset
Beyond == 1          \* Tile is called up to Beyond past the grid and the levels

MaxNative == 2       \* the slide stores 1..MaxNative native levels

NotCancelled == 0 - 1

-----------------------------------------------------------------------------
(* float64 helpers *)

Point(x, y) == [X |-> x, Y |-> y]

Min(a, b) == IF a <= b THEN a ELSE b

Max(a, b) == IF a >= b THEN a ELSE b

\* math.Ceil of the rational n/d, d > 0
Ceil(n, d) == -((-n) \div d)

\* int(f) of the rational n/d, d > 0: Go truncates toward zero
TruncInt(n, d) == IF n >= 0 THEN n \div d ELSE -((-n) \div d)

\* Go's integer division a / b, b > 0: truncates toward zero
IntDiv(a, b) == IF a >= 0 THEN a \div b ELSE -((-a) \div b)

boolToInt(b) == IF b THEN 1 ELSE 0

\* A string is [numeric, value]: the decimal numeral of value, or a text
\* that is no numeral (the empty string of an absent property)
EmptyString == [numeric |-> FALSE, value |-> 0]

\* strconv.Itoa
Itoa(n) == [numeric |-> TRUE, value |-> n]

\* strconv.Atoi with the error dropped: a decimal numeral gives its number,
\* anything else gives 0
mustStrToInt(s) == IF s.numeric THEN s.value ELSE 0

RECURSIVE reverse(_)
reverse(a) == IF a = <<>> THEN <<>> ELSE Append(reverse(Tail(a)), Head(a))

-----------------------------------------------------------------------------
(* The WSI collaborator: per-level dimensions, per-level downsample, and   *)
(* the openslide.bounds-* properties                                       *)

LevelCount(s) == Len(s.dims)

LevelDimensions(s, i) == s.dims[i + 1]

LevelDownsample(s, i) == s.downsamples[i + 1]

\* ds and the level downsamples are rationals; a < b
RatLess(a, b) == a[1] * b[2] < b[1] * a[2]

\* the coarsest level whose downsample does not exceed ds, level 0 if none
BestLevelForDownsample(s, ds) ==
    IF RatLess(ds, LevelDownsample(s, 0)) THEN 0
    ELSE LET fits == {i \in 0..(LevelCount(s) - 1) : ~RatLess(ds, LevelDownsample(s, i))}
         IN  CHOOSE i \in fits : \A j \in fits : j <= i

\* s.props[name] is [present, text]
PropertyValue(s, name) ==
    IF s.props[name].present THEN s.props[name].text ELSE EmptyString

PropertyValueWithDefault(s, name, default) ==
    IF s.props[name].present THEN s.props[name].text ELSE default

-----------------------------------------------------------------------------
(* Construction *)

getLevelDimensions(s, limitBounds) ==
    LET dimensions == [i \in 1..LevelCount(s) |->
                          Point(LevelDimensions(s, i - 1).X, LevelDimensions(s, i - 1).Y)]
        l0width  == dimensions[1].X
        l0height == dimensions[1].Y
        xRatio == IntDiv(mustStrToInt(PropertyValueWithDefault(s, "bounds-width", Itoa(l0width))),
                         l0width)
        yRatio == IntDiv(mustStrToInt(PropertyValueWithDefault(s, "bounds-height", Itoa(l0height))),
                         l0height)
    IN  IF ~limitBounds THEN dimensions
        ELSE [i \in 1..LevelCount(s) |->
                 Point(dimensions[i].X * xRatio, dimensions[i].Y * yRatio)]

\* halving that rounds down instead of up
halveFloor(zSize) == Point(Max(1, zSize.X \div 2), Max(1, zSize.Y \div 2))

halve(zSize) == Point(Max(1, Ceil(zSize.X, 2)), Max(1, Ceil(zSize.Y, 2)))

RECURSIVE zDimensionsFrom(_)
zDimensionsFrom(zSize) ==
    IF zSize.X <= 1 /\ zSize.Y <= 1 THEN <<zSize>>
    ELSE <<zSize>> \o zDimensionsFrom(halve(zSize))

getDeepZoomLevels(zSize) == reverse(zDimensionsFrom(zSize))

\* a tile count that drops the partial last tile
tileCountFloor(tileSize, zLim) == zLim \div tileSize

tileCount(tileSize, zLim) == Ceil(zLim, tileSize)

getDeepZoomTileLevels(tileSize, dimensions) ==
    [i \in 1..Len(dimensions) |->
        Point(tileCount(tileSize, dimensions[i].X), tileCount(tileSize, dimensions[i].Y))]

\* one entry of []downsample: slideLevel {level, downsample, Point} and
\* bestLevelDownsample = l0ZDownsample / slide.LevelDownsample(bestLevel)
downsampleFor(s, dzLevelsCount, dzLevel) ==
    LET l0ZDownsample == <<2 ^ (dzLevelsCount - dzLevel - 1), 1>>
        bestLevel == BestLevelForDownsample(s, l0ZDownsample)
        ds == LevelDownsample(s, bestLevel)
    IN  [slideLevel |-> [level |-> bestLevel,
                         downsample |-> ds,
                         X |-> LevelDimensions(s, bestLevel).X,
                         Y |-> LevelDimensions(s, bestLevel).Y],
         bestLevelDownsample |-> <<l0ZDownsample[1] * ds[2], ds[1]>>]

generateDownsamples(s, dzLevelsCount) ==
    [i \in 1..dzLevelsCount |-> downsampleFor(s, dzLevelsCount, i - 1)]

getLevel0Offset(s, limitBounds) ==
    IF limitBounds
    THEN Point(mustStrToInt(PropertyValue(s, "bounds-x")),
               mustStrToInt(PropertyValue(s, "bounds-y")))
    ELSE Point(0, 0)

NewDeepZoomGenerator(s, tileSize, overlap, limitBounds) ==
    LET levels == getLevelDimensions(s, limitBounds)
        deepZoomLevels == getDeepZoomLevels(levels[1])
        deepZoomTileLevels == getDeepZoomTileLevels(tileSize, deepZoomLevels)
        downsamples == generateDownsamples(s, Len(deepZoomTileLevels))
    IN  [tileSize |-> tileSize,
         overlap |-> overlap,
         limitBounds |-> limitBounds,
         deepZoomTileLevels |-> deepZoomTileLevels,
         deepZoomLevels |-> deepZoomLevels,
         levels |-> levels,
         level0Offset |-> getLevel0Offset(s, limitBounds),
         downsamples |-> downsamples]

-----------------------------------------------------------------------------
(* Queries *)

LevelsCount(g) == Len(g.downsamples)

Level(g, l) == g.deepZoomTileLevels[l + 1]

RECURSIVE sumTiles(_)
sumTiles(ds) == IF ds = <<>> THEN 0 ELSE Head(ds).X * Head(ds).Y + sumTiles(Tail(ds))

TileCount(g) == sumTiles(g.deepZoomTileLevels)

\* overlap whose right/bottom test is off by one: the last column and row
\* are padded too
getDeepZoomOverlapPastLast(levelDimension, overlap, c, r) ==
    [left   |-> overlap * boolToInt(c # 0),
     top    |-> overlap * boolToInt(r # 0),
     right  |-> overlap * boolToInt(c # levelDimension.X),
     bottom |-> overlap * boolToInt(r # levelDimension.Y)]

getDeepZoomOverlap(levelDimension, overlap, c, r) ==
    [left   |-> overlap * boolToInt(c # 0),
     top    |-> overlap * boolToInt(r # 0),
     right  |-> overlap * boolToInt(c # levelDimension.X - 1),
     bottom |-> overlap * boolToInt(r # levelDimension.Y - 1)]

\* the level check of tileInfo
levelRejected(g, dzLevel) == dzLevel < 0 \/ dzLevel > Len(g.downsamples)

\* zSize that never goes below the overlap: the remaining width clamped at 0
zSizeOfClamped(g, dzLevel, c, r) ==
    LET dzOverlap == getDeepZoomOverlap(Level(g, dzLevel), g.overlap, c, r)
    IN  Point(Max(0, Min(g.tileSize, g.deepZoomLevels[dzLevel + 1].X - g.tileSize * c))
                  + dzOverlap.left + dzOverlap.right,
              Max(0, Min(g.tileSize, g.deepZoomLevels[dzLevel + 1].Y - g.tileSize * r))
                  + dzOverlap.top + dzOverlap.bottom)

\* zSize of tileInfo
zSizeOf(g, dzLevel, c, r) ==
    LET dzOverlap == getDeepZoomOverlap(Level(g, dzLevel), g.overlap, c, r)
    IN  Point(TruncInt(Min(g.tileSize, g.deepZoomLevels[dzLevel + 1].X - g.tileSize * c), 1)
                  + dzOverlap.left + dzOverlap.right,
              TruncInt(Min(g.tileSize, g.deepZoomLevels[dzLevel + 1].Y - g.tileSize * r), 1)
                  + dzOverlap.top + dzOverlap.bottom)

\* lLocation of tileInfo: two rationals over the denominator of bestLevelDownsample
lLocationOf(g, dzLevel, c, r) ==
    LET lv == g.downsamples[dzLevel + 1]
        dzOverlap == getDeepZoomOverlap(Level(g, dzLevel), g.overlap, c, r)
        zLocation == Point(g.tileSize * c, g.tileSize * r)
    IN  [X |-> <<lv.bestLevelDownsample[1] * (zLocation.X - dzOverlap.left),
                 lv.bestLevelDownsample[2]>>,
         Y |-> <<lv.bestLevelDownsample[1] * (zLocation.Y - dzOverlap.top),
                 lv.bestLevelDownsample[2]>>]

\* l0Location of tileInfo
l0LocationOf(g, dzLevel, c, r) ==
    LET lv == g.downsamples[dzLevel + 1]
        ds == lv.slideLevel.downsample
        lLocation == lLocationOf(g, dzLevel, c, r)
    IN  Point(TruncInt(ds[1] * lLocation.X[1] + g.level0Offset.X * ds[2] * lLocation.X[2],
                       ds[2] * lLocation.X[2]),
              TruncInt(ds[1] * lLocation.Y[1] + g.level0Offset.Y * ds[2] * lLocation.Y[2],
                       ds[2] * lLocation.Y[2]))

\* lSize without the clamp to the native level's extent
lSizeOfUnclamped(g, dzLevel, c, r) ==
    LET bld == g.downsamples[dzLevel + 1].bestLevelDownsample
        zSize == zSizeOf(g, dzLevel, c, r)
    IN  Point(Ceil(bld[1] * zSize.X, bld[2]), Ceil(bld[1] * zSize.Y, bld[2]))

\* lSize of tileInfo
lSizeOf(g, dzLevel, c, r) ==
    LET lv == g.downsamples[dzLevel + 1]
        bld == lv.bestLevelDownsample
        zSize == zSizeOf(g, dzLevel, c, r)
        lLocation == lLocationOf(g, dzLevel, c, r)
    IN  Point(TruncInt(Min(Ceil(bld[1] * zSize.X, bld[2]),
                           lv.slideLevel.X - Ceil(lLocation.X[1], lLocation.X[2])), 1),
              TruncInt(Min(Ceil(bld[1] * zSize.Y, bld[2]),
                           lv.slideLevel.Y - Ceil(lLocation.Y[1], lLocation.Y[2])), 1))

ZeroPoint == Point(0, 0)

ZeroTileInfo == [l0Location |-> ZeroPoint, lSize |-> ZeroPoint, zSize |-> ZeroPoint,
                 slideLevel |-> 0]

\* tileInfo whose address check also rejects column 0 and row 0
tileInfoRejectsOrigin(g, dzLevel, c, r) ==
    IF levelRejected(g, dzLevel)
        THEN [ti |-> ZeroTileInfo, err |-> "invalid levelDownsample"]
    ELSE IF c <= 0 \/ r <= 0
        THEN [ti |-> ZeroTileInfo, err |-> "invalid address"]
    ELSE IF dzLevel + 1 \notin DOMAIN g.downsamples
        THEN [ti |-> ZeroTileInfo, err |-> "panic"]
    ELSE [ti |-> [l0Location |-> l0LocationOf(g, dzLevel, c, r),
                  lSize |-> lSizeOf(g, dzLevel, c, r),
                  zSize |-> zSizeOf(g, dzLevel, c, r),
                  slideLevel |-> g.downsamples[dzLevel + 1].slideLevel.level],
          err |-> "nil"]

\* tileInfo: <<tileInfo, err>>; "panic" is the index-out-of-range runtime
\* panic of dz.downsamples[dzLevel]
tileInfo(g, dzLevel, c, r) ==
    IF levelRejected(g, dzLevel)
        THEN [ti |-> ZeroTileInfo, err |-> "invalid levelDownsample"]
    ELSE IF c < 0 \/ r < 0
        THEN [ti |-> ZeroTileInfo, err |-> "invalid address"]
    ELSE IF dzLevel + 1 \notin DOMAIN g.downsamples
        THEN [ti |-> ZeroTileInfo, err |-> "panic"]
    ELSE [ti |-> [l0Location |-> l0LocationOf(g, dzLevel, c, r),
                  lSize |-> lSizeOf(g, dzLevel, c, r),
                  zSize |-> zSizeOf(g, dzLevel, c, r),
                  slideLevel |-> g.downsamples[dzLevel + 1].slideLevel.level],
          err |-> "nil"]

ZeroTile == [Level |-> 0, Row |-> 0, Col |-> 0, tileInfo |-> ZeroTileInfo]

\* Tile: <<Tile, err>>
Tile(g, l, c, r) ==
    LET res == tileInfo(g, l, c, r)
    IN  IF res.err # "nil" THEN [tile |-> ZeroTile, err |-> res.err]
        ELSE [tile |-> [Level |-> l, Row |-> r, Col |-> c, tileInfo |-> res.ti],
              err |-> "nil"]

-----------------------------------------------------------------------------
(* The slides and generators the model is run on *)

Absent == [present |-> FALSE, text |-> EmptyString]

Present(n) == [present |-> TRUE, text |-> Itoa(n)]

\* native level k of a w x h slide: the level-0 size halved k times, its
\* downsample the mean of the two axis ratios
nativeDim(w, h, k) == Point(Max(1, w \div (2 ^ k)), Max(1, h \div (2 ^ k)))

nativeDownsample(w, h, k) ==
    LET d == nativeDim(w, h, k)
    IN  <<w * d.Y + h * d.X, 2 * d.X * d.Y>>

\* the bounding boxes a w x h slide can declare: <<offset, width, height>>,
\* at least 1x1 and inside level 0; width or height 0 stands for a property
\* the slide does not carry
BoundsBoxes(w, h) ==
    {b \in (0..MaxOffset) \X (0..w) \X (0..h) :
        /\ b[1] + b[2] <= w
        /\ b[1] + b[3] <= h
        /\ (b[2] = 0 \/ b[3] = 0) => b[1] = 0}

PropNames == {"bounds-x", "bounds-y", "bounds-width", "bounds-height"}

\* the openslide.bounds-* properties of a w x h slide: none, or those of a
\* bounding box
BoundsProps(w, h) ==
    {[n \in PropNames |-> Absent]}
    \cup {[n \in PropNames |->
               CASE n = "bounds-x" -> Present(b[1])
                 [] n = "bounds-y" -> Present(b[1])
                 [] n = "bounds-width" -> IF b[2] = 0 THEN Absent ELSE Present(b[2])
                 [] n = "bounds-height" -> IF b[3] = 0 THEN Absent ELSE Present(b[3])] :
            b \in BoundsBoxes(w, h)}

SlidesOf(w, h, maxNative) ==
    {[dims |-> [k \in 1..n |-> nativeDim(w, h, k - 1)],
      downsamples |-> [k \in 1..n |-> nativeDownsample(w, h, k - 1)],
      props |-> p] : n \in 1..maxNative, p \in BoundsProps(w, h)}

\* the slides up to maxDim x maxDim with up to maxNative native levels
Slides(maxDim, maxNative) ==
    UNION {SlidesOf(w, h, maxNative) : w \in 1..maxDim, h \in 1..maxDim}

\* tileSize 512, overlap 1 over a 1024 x 1024 level
ScenarioSlide ==
    [dims |-> <<Point(1024, 1024)>>,
     downsamples |-> <<(<<1, 1>>)>>,
     props |-> [n \in PropNames |-> Absent]]

NoCall == [state |-> "idle", level |-> 0, col |-> 0, row |-> 0,
           tile |-> ZeroTile, err |-> "nil"]

\* NewDeepZoomGenerator(slide, tileSize, overlap, limitBounds) on a slide of
\* slides; a slide that declares bounds is opened with limitBounds
Construct(slides) ==
    \E s \in slides, ts \in 1..MaxTile, ov \in 0..MaxOverlap, lb \in BOOLEAN :
        /\ lb \/ \A n \in DOMAIN s.props : ~s.props[n].present
        /\ slide = s
        /\ dz = NewDeepZoomGenerator(s, ts, ov, lb)

ConstructScenario ==
    /\ slide = ScenarioSlide
    /\ dz = NewDeepZoomGenerator(ScenarioSlide, 512, 1, FALSE)

Idle ==
    /\ call = NoCall
    /\ ctxDone = FALSE
    /\ pc = "idle"
    /\ level = 0
    /\ row = 0
    /\ col = 0
    /\ tile = ZeroTile
    /\ received = <<>>
    /\ cancelledAt = NotCancelled
    /\ cancelLevel = NotCancelled

Init == (Construct(Slides(MaxDim, MaxNative)) \/ ConstructScenario) /\ Idle

InitIter == Construct(Slides(MaxIterDim, 1)) /\ Idle

-----------------------------------------------------------------------------
(* Tile(level, col, row) called by a client *)

CallTile ==
    /\ call.state = "idle"
    /\ \E l \in (0 - Beyond)..(LevelsCount(dz) - 1 + Beyond) :
         LET grid == IF l \in 0..(LevelsCount(dz) - 1) THEN Level(dz, l) ELSE ZeroPoint
         IN  \E c \in (0 - Beyond)..(grid.X - 1 + Beyond),
                r \in (0 - Beyond)..(grid.Y - 1 + Beyond) :
               LET res == Tile(dz, l, c, r)
               IN  call' = [state |-> "returned", level |-> l, col |-> c, row |-> r,
                            tile |-> res.tile, err |-> res.err]
    /\ UNCHANGED <<slide, dz>>
    /\ UNCHANGED iterVars

ReturnTile ==
    /\ call.state = "returned"
    /\ call' = NoCall
    /\ UNCHANGED <<slide, dz>>
    /\ UNCHANGED iterVars

NextGeom == CallTile \/ ReturnTile

SpecGeom == Init /\ [][NextGeom]_vars

-----------------------------------------------------------------------------
(* Iter(ctx): the goroutine writing to the unbuffered channel ch, the      *)
(* consumer reading it, and whoever cancels ctx                            *)

\* Iter is called: ch is made and the goroutine started
IterStart ==
    /\ pc = "idle"
    /\ pc' = "loop"
    /\ level' = 0
    /\ row' = 0
    /\ col' = 0
    /\ UNCHANGED <<slide, dz, call, ctxDone, tile, received, cancelledAt, cancelLevel>>

\* level < dz.LevelsCount() fails: the goroutine returns and the deferred
\* close(ch) runs
LoopExit ==
    /\ pc = "loop"
    /\ ~(level < LevelsCount(dz))
    /\ pc' = "done"
    /\ UNCHANGED <<slide, dz, call, ctxDone, level, row, col, tile, received,
                   cancelledAt, cancelLevel>>

\* row < rows fails: level++
NextLevel ==
    /\ pc = "loop"
    /\ level < LevelsCount(dz)
    /\ ~(row < Level(dz, level).Y)
    /\ level' = level + 1
    /\ row' = 0
    /\ col' = 0
    /\ UNCHANGED <<slide, dz, call, ctxDone, pc, tile, received, cancelledAt, cancelLevel>>

\* row++ that does not start the new row at column 0
NextRowKeepsCol ==
    /\ pc = "loop"
    /\ level < LevelsCount(dz)
    /\ row < Level(dz, level).Y
    /\ ~(col < Level(dz, level).X)
    /\ row' = row + 1
    /\ UNCHANGED <<slide, dz, call, ctxDone, pc, level, col, tile, received,
                   cancelledAt, cancelLevel>>

\* col < cols fails: row++
NextRow ==
    /\ pc = "loop"
    /\ level < LevelsCount(dz)
    /\ row < Level(dz, level).Y
    /\ ~(col < Level(dz, level).X)
    /\ row' = row + 1
    /\ col' = 0
    /\ UNCHANGED <<slide, dz, call, ctxDone, pc, level, tile, received,
                   cancelledAt, cancelLevel>>

\* tile, _ := dz.Tile(level, col, row), then the goroutine waits in select
ComputeTile ==
    /\ pc = "loop"
    /\ level < LevelsCount(dz)
    /\ row < Level(dz, level).Y
    /\ col < Level(dz, level).X
    /\ tile' = Tile(dz, level, col, row).tile
    /\ pc' = "select"
    /\ UNCHANGED <<slide, dz, call, ctxDone, level, row, col, received,
                   cancelledAt, cancelLevel>>

\* case ch <- tile: the consumer is receiving and select takes the send
\* (select chooses among its ready cases at random, so ctx being done does
\* not disable this case); then col++
Send ==
    /\ pc = "select"
    /\ received' = Append(received, tile)
    /\ col' = col + 1
    /\ pc' = "loop"
    /\ UNCHANGED <<slide, dz, call, ctxDone, level, row, tile, cancelledAt, cancelLevel>>

\* case <-ctx.Done(): return, and the deferred close(ch) runs
CtxDoneReturn ==
    /\ pc = "select"
    /\ ctxDone
    /\ pc' = "done"
    /\ UNCHANGED <<slide, dz, call, ctxDone, level, row, col, tile, received,
                   cancelledAt, cancelLevel>>

\* the owner of ctx cancels it
Cancel ==
    /\ ~ctxDone
    /\ ctxDone' = TRUE
    /\ cancelledAt' = Len(received)
    /\ cancelLevel' = level
    /\ UNCHANGED <<slide, dz, call, pc, level, row, col, tile, received>>

Producer == LoopExit \/ NextLevel \/ NextRow \/ ComputeTile \/ CtxDoneReturn

NextIter ==
    \/ IterStart
    \/ LoopExit
    \/ NextLevel
    \/ NextRow
    \/ ComputeTile
    \/ Send
    \/ CtxDoneReturn
    \/ Cancel

SpecIter == InitIter /\ [][NextIter]_vars

\* the Go scheduler runs a runnable goroutine: the producer takes its next
\* step whenever one is enabled without the consumer
FairSpecIter == SpecIter /\ WF_vars(Producer)

-----------------------------------------------------------------------------
(* Properties of Iter *)

\* (Level, Row, Col) of a is before that of b
KeyBefore(a, b) ==
    \/ a.Level < b.Level
    \/ a.Level = b.Level /\ a.Row < b.Row
    \/ a.Level = b.Level /\ a.Row = b.Row /\ a.Col < b.Col

\* every (level, col, row) of the grids
GridKeys ==
    UNION {{[Level |-> l, Row |-> r, Col |-> c] :
               c \in 0..(Level(dz, l).X - 1), r \in 0..(Level(dz, l).Y - 1)} :
           l \in 0..(LevelsCount(dz) - 1)}

ReceivedKeys ==
    {[Level |-> received[i].Level, Row |-> received[i].Row, Col |-> received[i].Col] :
        i \in 1..Len(received)}

\* C1: the tiles delivered are in ascending (Level, Row, Col) order, each is a
\* (level, col, row) of the grids, none is skipped, and once the goroutine
\* has closed the channel without ctx ever cancelled every (level, col, row)
\* of the grids has been delivered (exactly once, by the strict order).
C1_IterOrderedAndComplete ==
    /\ ReceivedKeys \subseteq GridKeys
    /\ \A i \in 1..(Len(received) - 1) : KeyBefore(received[i], received[i + 1])
    /\ \A k \in GridKeys :
          (\E q \in ReceivedKeys : KeyBefore(k, q)) => k \in ReceivedKeys
    /\ (pc = "done" /\ cancelledAt = NotCancelled) => ReceivedKeys = GridKeys

C1_Witness ==
    /\ pc = "done"
    /\ ~ctxDone
    /\ LevelsCount(dz) >= 3
    /\ Len(received) = TileCount(dz)
    /\ \E i \in 1..Len(received) : received[i].Row >= 1 /\ received[i].Col >= 1

\* C2: when ctx is cancelled right after the first tile was received, no
\* further tile is ever delivered: exactly one tile is observed.
C2_OneTileAfterCancel == cancelledAt = 1 => Len(received) = 1

\* C3: once ctx is cancelled the goroutine closes the channel without
\* having gone on to deliver tiles of the levels that remained.
C3_ClosesWithoutRemainingLevels ==
    (pc = "done" /\ cancelledAt # NotCancelled) =>
        \A i \in 1..Len(received) : received[i].Level <= cancelLevel

\* the consumer keeps receiving: besides the goroutine's own steps, the
\* send is taken whenever it stays offered
FairSpecIterReceiving == SpecIter /\ WF_vars(Producer) /\ WF_vars(Send)

\* C11: while the goroutine waits in select, the dz.Tile call it just made
\* had a valid level and in-grid, non-negative coordinates and returned no
\* error; no zero-value Tile is delivered; never more than TileCount() tiles
\* are delivered, and when the channel is closed without ctx ever cancelled
\* exactly TileCount() tiles have been delivered.
C11_IterDeliversTileCount ==
    /\ pc = "select" =>
          /\ 0 <= level /\ level < LevelsCount(dz)
          /\ 0 <= col /\ col < Level(dz, level).X
          /\ 0 <= row /\ row < Level(dz, level).Y
          /\ Tile(dz, level, col, row).err = "nil"
          /\ tile = Tile(dz, level, col, row).tile
          /\ tile # ZeroTile
    /\ \A i \in 1..Len(received) : received[i] # ZeroTile
    /\ Len(received) <= TileCount(dz)
    /\ (pc = "done" /\ cancelledAt = NotCancelled) => Len(received) = TileCount(dz)

C11_Witness ==
    /\ pc = "done"
    /\ cancelledAt = NotCancelled
    /\ dz.overlap >= 1
    /\ dz.limitBounds
    /\ TileCount(dz) >= 6
    /\ Len(received) = TileCount(dz)

\* The closing half of C11: with the consumer receiving, a started goroutine
\* reaches the deferred close(ch).
IterCompletes == (pc # "idle") ~> (pc = "done")

\* The termination half of C3: a goroutine started with ctx cancelled
\* reaches the deferred close(ch), whether or not the consumer receives.
IterTerminatesOnCancel == (ctxDone /\ pc # "idle") ~> (pc = "done")

-----------------------------------------------------------------------------
(* Properties of Tile / tileInfo and of the construction *)

Returned == call.state = "returned"

ValidLevel(l) == 0 <= l /\ l < LevelsCount(dz)

\* pixel size of Deep Zoom level l
LevelSize(l) == dz.deepZoomLevels[l + 1]

\* (col, row) of the returned call lies in the grid of its level
InGrid ==
    /\ Returned
    /\ ValidLevel(call.level)
    /\ 0 <= call.col /\ dz.tileSize * call.col < LevelSize(call.level).X
    /\ 0 <= call.row /\ dz.tileSize * call.row < LevelSize(call.level).Y

\* the overlap a tile at coordinate k of an axis of length lim receives:
\* none before the first tile, none after the last
OverlapBefore(k) == IF k = 0 THEN 0 ELSE dz.overlap

OverlapAfter(k, lim) == IF dz.tileSize * (k + 1) >= lim THEN 0 ELSE dz.overlap

\* C4: Tile returns the InvalidLevel error for every level outside
\* [0, LevelsCount()), level = LevelsCount() included.
C4_InvalidLevelRejected ==
    (Returned /\ ~ValidLevel(call.level)) => call.err = "invalid levelDownsample"

\* C5: for a base of at least 1x1 the Deep Zoom levels end with the base,
\* start with (1,1), each is the componentwise ceiling of half the next, and
\* no level after the first is 1 on both axes (a 1x1 base gives one level).
C5_DeepZoomLevelsChain ==
    LET zs == dz.deepZoomLevels
        base == dz.levels[1]
    IN  (base.X >= 1 /\ base.Y >= 1) =>
          /\ zs[Len(zs)] = base
          /\ zs[1] = Point(1, 1)
          /\ \A i \in 1..(Len(zs) - 1) :
                /\ 2 * zs[i].X \in {zs[i + 1].X, zs[i + 1].X + 1}
                /\ 2 * zs[i].Y \in {zs[i + 1].Y, zs[i + 1].Y + 1}
          /\ \A i \in 2..Len(zs) : zs[i] # Point(1, 1)
          /\ (base = Point(1, 1) => Len(zs) = 1)

C5_Witness ==
    /\ dz.levels[1].X >= 3
    /\ dz.levels[1].Y = 2
    /\ Len(dz.deepZoomLevels) = 3

\* unpadded width of the tile in column c (row r) of level l: outputSize.X
\* minus the left and right overlap added to it
UnpaddedX(l, c, r) ==
    Tile(dz, l, c, r).tile.tileInfo.zSize.X
        - OverlapBefore(c) - OverlapAfter(c, LevelSize(l).X)

UnpaddedY(l, c, r) ==
    Tile(dz, l, c, r).tile.tileInfo.zSize.Y
        - OverlapBefore(r) - OverlapAfter(r, LevelSize(l).Y)

\* the unpadded widths of columns 0..c of row r
RECURSIVE SumX(_, _, _)
SumX(l, c, r) == IF c < 0 THEN 0 ELSE UnpaddedX(l, c, r) + SumX(l, c - 1, r)

\* the unpadded heights of rows 0..r of column c
RECURSIVE SumY(_, _, _)
SumY(l, c, r) == IF r < 0 THEN 0 ELSE UnpaddedY(l, c, r) + SumY(l, c, r - 1)

\* C6: the unpadded widths of the tiles of a row, from column 0 to the last
\* column of the level's grid, add up to the level's pixel width, and the
\* unpadded heights of the tiles of a column to its pixel height.
C6_UnpaddedSizesTileTheLevel ==
    /\ (InGrid /\ call.col = Level(dz, call.level).X - 1) =>
          SumX(call.level, call.col, call.row) = LevelSize(call.level).X
    /\ (InGrid /\ call.row = Level(dz, call.level).Y - 1) =>
          SumY(call.level, call.col, call.row) = LevelSize(call.level).Y

C6_Witness ==
    /\ InGrid
    /\ dz.overlap >= 1
    /\ dz.tileSize = 2
    /\ LevelSize(call.level) = Point(3, 3)
    /\ call.col = 1
    /\ call.row = 1
    /\ SumX(call.level, 1, 1) = 3
    /\ SumY(call.level, 1, 1) = 3

\* C7: for an in-grid tile outputSize is, per axis,
\* min(tileSize, levelDimension - tileSize*coord) plus overlap on each side
\* that is an interior edge; with tileSize 512, overlap 1 and a level 1024
\* wide both columns have outputSize.X = 513.
C7_OutputSize ==
    InGrid =>
        LET zSize == call.tile.tileInfo.zSize
            lim == LevelSize(call.level)
        IN  /\ call.err = "nil"
            /\ zSize.X = Min(dz.tileSize, lim.X - dz.tileSize * call.col)
                            + OverlapBefore(call.col) + OverlapAfter(call.col, lim.X)
            /\ zSize.Y = Min(dz.tileSize, lim.Y - dz.tileSize * call.row)
                            + OverlapBefore(call.row) + OverlapAfter(call.row, lim.Y)
            /\ (dz.tileSize = 512 /\ dz.overlap = 1 /\ lim.X = 1024) => zSize.X = 513

C7_Witness ==
    /\ InGrid
    /\ dz.tileSize = 512
    /\ dz.overlap = 1
    /\ LevelSize(call.level).X = 1024
    /\ call.col = 1
    /\ call.tile.tileInfo.zSize.X = 513

\* the native level the returned tile is read from
ChosenLevel == LevelDimensions(slide, call.tile.tileInfo.slideLevel)

\* C8 as stated: for an in-grid tile sourceLocation + sourceSize does not
\* exceed the pixel dimension of the chosen native level.
C8_SourceRectWithinLevel ==
    InGrid =>
        /\ call.tile.tileInfo.l0Location.X + call.tile.tileInfo.lSize.X <= ChosenLevel.X
        /\ call.tile.tileInfo.l0Location.Y + call.tile.tileInfo.lSize.Y <= ChosenLevel.Y

\* origin of the returned tile on an axis, in the coordinates of the chosen
\* native level, rounded up: ceil(residual * (tileSize*coord - overlapBefore))
OriginInLevel(k) ==
    LET residual == dz.downsamples[call.level + 1].bestLevelDownsample
    IN  Ceil(residual[1] * (dz.tileSize * k - OverlapBefore(k)), residual[2])

\* C8 amended: for an in-grid tile the tile's origin in the chosen native
\* level's own coordinates, rounded up, plus sourceSize does not exceed that
\* level's pixel dimension.
C8_SourceSizeWithinLevel ==
    InGrid =>
        /\ OriginInLevel(call.col) + call.tile.tileInfo.lSize.X <= ChosenLevel.X
        /\ OriginInLevel(call.row) + call.tile.tileInfo.lSize.Y <= ChosenLevel.Y

C8_Witness ==
    /\ InGrid
    /\ call.col >= 1
    /\ call.tile.tileInfo.slideLevel >= 1
    /\ call.tile.tileInfo.lSize.X >= 1
    /\ OriginInLevel(call.col) + call.tile.tileInfo.lSize.X = ChosenLevel.X
    /\ call.tile.tileInfo.l0Location.X + call.tile.tileInfo.lSize.X > ChosenLevel.X

\* C9: the effective base dimensions are at least 1x1 and every level's
\* grid has at least one column and one row.
C9_BaseAndGridsAtLeastOne ==
    (LevelDimensions(slide, 0).X >= 1 /\ LevelDimensions(slide, 0).Y >= 1) =>
        /\ dz.levels[1].X >= 1
        /\ dz.levels[1].Y >= 1
        /\ \A l \in 0..(LevelsCount(dz) - 1) : Level(dz, l).X >= 1 /\ Level(dz, l).Y >= 1

\* the returned call names a valid level and a column past the grid
ColumnPastGrid ==
    /\ Returned
    /\ ValidLevel(call.level)
    /\ call.row >= 0
    /\ call.col >= 0
    /\ call.col >= Level(dz, call.level).X

RowPastGrid ==
    /\ Returned
    /\ ValidLevel(call.level)
    /\ call.col >= 0
    /\ call.row >= 0
    /\ call.row >= Level(dz, call.level).Y

\* C10 as stated: for a column past the grid Tile returns no error and
\* outputSize.X is negative or zero; the same for a row and outputSize.Y.
C10_PastGridNotPositive ==
    /\ ColumnPastGrid => (call.err = "nil" /\ call.tile.tileInfo.zSize.X <= 0)
    /\ RowPastGrid => (call.err = "nil" /\ call.tile.tileInfo.zSize.Y <= 0)

\* the overlap tileInfo adds around coordinate k of an axis with n tiles
AddedOverlap(k, n) ==
    dz.overlap * boolToInt(k # 0) + dz.overlap * boolToInt(k # n - 1)

\* C10 amended: for a column past the grid Tile returns no error and
\* outputSize.X is levelWidth - tileSize*col, which is negative or zero, plus
\* the overlap added on the sides; so it is negative or zero when overlap
\* is 0 and at most 2*overlap otherwise.  The same for a row.
C10_PastGridUnpaddedNotPositive ==
    /\ ColumnPastGrid =>
          /\ call.err = "nil"
          /\ LevelSize(call.level).X - dz.tileSize * call.col <= 0
          /\ call.tile.tileInfo.zSize.X =
                 LevelSize(call.level).X - dz.tileSize * call.col
                   + AddedOverlap(call.col, Level(dz, call.level).X)
          /\ call.tile.tileInfo.zSize.X <= 2 * dz.overlap
    /\ RowPastGrid =>
          /\ call.err = "nil"
          /\ LevelSize(call.level).Y - dz.tileSize * call.row <= 0
          /\ call.tile.tileInfo.zSize.Y =
                 LevelSize(call.level).Y - dz.tileSize * call.row
                   + AddedOverlap(call.row, Level(dz, call.level).Y)
          /\ call.tile.tileInfo.zSize.Y <= 2 * dz.overlap

C10_Witness ==
    /\ ColumnPastGrid
    /\ dz.overlap >= 1
    /\ dz.levels[1].X >= 1
    /\ call.err = "nil"
    /\ call.tile.tileInfo.zSize.X > 0

=============================================================================
